---- MODULE Spec2Model ----
(***************************************************************************)
(* A model of .github/workflows/scripts/compare_versions.py, the CI helper *)
(* that compares a release tag with the version declared in Cargo.toml.    *)
(*                                                                         *)
(* One run of the script is one behaviour.  pc is the line the interpreter *)
(* is about to execute; every action is one statement (or one `if` with    *)
(* the statement that ends the process).  Text is a sequence of one-       *)
(* character strings, so that formatting, stripping and comparison are     *)
(* computed character by character as Python computes them.                *)
(***************************************************************************)
EXTENDS Integers, Sequences, FiniteSets, TLC

\* ------------------------------------------------------------------ bounds
\* longest enumerated argument string (besides the named examples below)
MaxLen == 2

\* ------------------------------------------------------------ input space
\* characters the enumerated arguments are made of
Alphabet == {"v", "1", "9"}

\* code points of the characters that occur in arguments (str comparison
\* in Python orders by code point)
Ord ==
    [c \in {".", "0", "1", "2", "3", "4", "9", "v"} |->
        CASE c = "." -> 46
          [] c = "0" -> 48
          [] c = "1" -> 49
          [] c = "2" -> 50
          [] c = "3" -> 51
          [] c = "4" -> 52
          [] c = "9" -> 57
          [] c = "v" -> 118]

BoundedStrs == UNION {[1..n -> Alphabet] : n \in 0..MaxLen}

ExampleTags ==
    { <<"v", "1", ".", "2", ".", "3">>,
      <<"v", "v", "1", ".", "2", ".", "3">>,
      <<"v", "1", ".", "2", ".", "2">>,
      <<"v", "1", ".", "2", ".", "4">>,
      <<"v", "9", ".", "0", ".", "0">>,
      <<"9", ".", "0", ".", "0">>,
      <<"1", "0", ".", "0", ".", "0">> }

ExampleVersions ==
    { <<"1", ".", "2", ".", "3">>,
      <<"1", "0", ".", "0", ".", "0">>,
      <<"9", ".", "0", ".", "0">> }

\* sys.argv[1] candidates
Tags == BoundedStrs \cup ExampleTags

\* sys.argv[2] candidates
Versions == BoundedStrs \cup ExampleVersions

\* sys.argv[0]
PROG ==
    <<"c", "o", "m", "p", "a", "r", "e", "_", "v", "e", "r", "s", "i", "o",
      "n", "s", ".", "p", "y">>

\* arguments used for the runs with a wrong argument count
FewArgs == {<<>>, <<"v", "1">>, <<"1">>}

\* sys.argv: the program name followed by 0, 1, 2 or 3 arguments
Argvs ==
    {<<PROG>>}
    \cup {<<PROG, a>> : a \in FewArgs}
    \cup {<<PROG, a, b>> : a \in Tags, b \in Versions}
    \cup {<<PROG, a, b, c>> : a \in FewArgs, b \in FewArgs, c \in FewArgs}

\* the two sink files of the pipeline
OutPath == "/runner/_temp/output"

SumPath == "/runner/_temp/summary"

Paths == {OutPath, SumPath}

EnvNames == {"GITHUB_OUTPUT", "GITHUB_STEP_SUMMARY"}

\* the pipeline points each variable at its own file
PathOf == [n \in EnvNames |-> IF n = "GITHUB_OUTPUT" THEN OutPath ELSE SumPath]

\* an environment: each variable is absent, set to "" or set to its path
Environs ==
    UNION {{e \in [D -> Paths \cup {""}] :
                \A n \in D : e[n] \in {"", PathOf[n]}} : D \in SUBSET EnvNames}

\* what os.getenv returns for a variable that is not set
None == "<None>"

\* content a sink may hold before the run
PRE == <<"k", "=", "1", "\n">>

\* a file: absent, present and empty, or present with earlier content
Files ==
    {[exists |-> FALSE, data |-> <<>>],
     [exists |-> TRUE, data |-> <<>>],
     [exists |-> TRUE, data |-> PRE]}

\* ---------------------------------------------------------- program texts
\* line 54: the usage message
USAGE ==
    <<"U", "s", "a", "g", "e", ":", " ", "c", "o", "m", "p", "a", "r", "e",
      "_", "v", "e", "r", "s", "i", "o", "n", "s", ".", "p", "y", " ", "<",
      "t", "a", "g", ">", " ", "<", "c", "a", "r", "g", "o", "_", "v", "e",
      "r", "s", "i", "o", "n", ">">>

\* line 29: f"## Tag: {tag}"
TAG_HEADING ==
    <<"#", "#", " ", "T", "a", "g", ":", " ">>

\* line 30: f"## Cargo Version: {cargo_version}"
CARGO_HEADING ==
    <<"#", "#", " ", "C", "a", "r", "g", "o", " ", "V", "e", "r", "s", "i",
      "o", "n", ":", " ">>

\* lines 34-35: the two adjacent literals, concatenated
TAG_AHEAD_MSG ==
    <<"T", "a", "g", " ", "i", "s", " ", "a", "h", "e", "a", "d", " ", "o",
      "f", " ", "C", "a", "r", "g", "o", " ", "v", "e", "r", "s", "i", "o",
      "n", ".", " ", "P", "l", "e", "a", "s", "e", " ", "u", "p", "d", "a",
      "t", "e", " ", "C", "a", "r", "g", "o", ".", "t", "o", "m", "l", ".",
      " ", "A", "n", "d", " ", "r", "e", "c", "r", "e", "a", "t", "e", " ",
      "t", "h", "e", " ", "t", "a", "g", ".">>

\* line 40
NO_RELEASE_MSG ==
    <<"N", "o", " ", "r", "e", "l", "e", "a", "s", "e", " ", "n", "e", "e",
      "d", "e", "d", ".">>

\* line 43
RELEASE_MSG ==
    <<"R", "e", "l", "e", "a", "s", "e", " ", "n", "e", "e", "d", "e", "d",
      ".">>

\* lines 41, 44: the record name
RELEASE_NEEDED ==
    <<"r", "e", "l", "e", "a", "s", "e", "_", "n", "e", "e", "d", "e", "d">>

\* line 46: the record name
TAG ==
    <<"t", "a", "g">>

\* line 47: the record name
CARGO_VERSION ==
    <<"c", "a", "r", "g", "o", "_", "v", "e", "r", "s", "i", "o", "n">>

\* line 44
STR_TRUE ==
    <<"t", "r", "u", "e">>

\* line 41
STR_FALSE ==
    <<"f", "a", "l", "s", "e">>

NL == <<"\n">>

ERR_GH_OUTPUT == "EnvironmentError: GITHUB_OUTPUT environment variable is not set"

ERR_GH_STEP_SUMMARY == "EnvironmentError: GITHUB_STEP_SUMMARY environment variable is not set"

\* ------------------------------------------------------------------ state
VARIABLES
    pc,               \* the line about to be executed, or "exited"
    environ,          \* os.environ
    argv,             \* sys.argv (argv[1] is sys.argv[0])
    fs,               \* the file system: path -> file
    fs0,              \* the file system as it was when the process started
    gh_output,        \* module global, line 8
    gh_step_summary,  \* module global, line 12
    tag,              \* main's local
    cargo_version,    \* main's local
    stdout,           \* characters printed to standard output
    uncaught,         \* the exception that ended the process, or None
    exit_status       \* the process's exit status, meaningful once exited

vars ==
    <<pc, environ, argv, fs, fs0, gh_output, gh_step_summary, tag,
      cargo_version, stdout, uncaught, exit_status>>

\* ------------------------------------------------------- library functions
\* os.getenv(name)
getenv(name) == IF name \in DOMAIN environ THEN environ[name] ELSE None

\* a truthiness test that only catches None (`x is None`)
Falsy_only_none(x) == x = None

\* Python truthiness of an Optional[str]: `not x`
Falsy(x) == x = None \/ x = ""

\* str.removeprefix in place of lstrip: one leading character at most
lstrip_removeprefix(s, chars) ==
    IF s # <<>> /\ Head(s) \in chars THEN Tail(s) ELSE s

\* str.rstrip in place of lstrip: the trailing characters are dropped
RECURSIVE lstrip_rstrip(_, _)
lstrip_rstrip(s, chars) ==
    IF s # <<>> /\ s[Len(s)] \in chars
      THEN lstrip_rstrip(SubSeq(s, 1, Len(s) - 1), chars)
      ELSE s

\* str.lstrip(chars): drop every leading character that is in chars
RECURSIVE lstrip(_, _)
lstrip(s, chars) ==
    IF s # <<>> /\ Head(s) \in chars THEN lstrip(Tail(s), chars) ELSE s

\* `>=` in place of `>`
RECURSIVE StrGt_ge(_, _)
StrGt_ge(a, b) ==
    IF b = <<>> THEN TRUE
    ELSE IF a = <<>> THEN FALSE
    ELSE IF Ord[Head(a)] # Ord[Head(b)] THEN Ord[Head(a)] > Ord[Head(b)]
    ELSE StrGt_ge(Tail(a), Tail(b))

\* a comparison that stops at the end of the shorter string
RECURSIVE StrGt_common(_, _)
StrGt_common(a, b) ==
    IF a = <<>> \/ b = <<>> THEN FALSE
    ELSE IF Ord[Head(a)] # Ord[Head(b)] THEN Ord[Head(a)] > Ord[Head(b)]
    ELSE StrGt_common(Tail(a), Tail(b))

\* a comparison that ranks the longer string higher, as a comparison of
\* the numbers would for versions of the same shape
StrGt_shortlex(a, b) ==
    IF Len(a) # Len(b) THEN Len(a) > Len(b) ELSE StrGt_common(a, b)

\* str.__gt__: the first differing code point decides, otherwise the
\* longer string is the greater
RECURSIVE StrGt(_, _)
StrGt(a, b) ==
    IF a = <<>> THEN FALSE
    ELSE IF b = <<>> THEN TRUE
    ELSE IF Ord[Head(a)] # Ord[Head(b)] THEN Ord[Head(a)] > Ord[Head(b)]
    ELSE StrGt(Tail(a), Tail(b))

\* open(path, "w"): the file is truncated
open_append_trunc(f, path) ==
    [f EXCEPT ![path] = [exists |-> TRUE, data |-> <<>>]]

\* open(path, "a"): the file is created when absent, never truncated
open_append(f, path) ==
    [f EXCEPT ![path] =
        [exists |-> TRUE, data |-> IF @.exists THEN @.data ELSE <<>>]]

\* f.write(text) on a file opened for appending
file_write(f, path, text) == [f EXCEPT ![path].data = @ \o text]

\* ------------------------------------------------------ program functions
\* the record written without its line terminator
write_gh_output_no_newline(f, name, value) ==
    [f EXCEPT ![gh_output] =
        [exists |-> TRUE,
         data |-> (IF @.exists THEN @.data ELSE <<>>)
                    \o name \o <<"=">> \o value]]

write_gh_output(f, name, value) ==
    file_write(open_append(f, gh_output), gh_output,
               name \o <<"=">> \o value \o NL)

\* the summary line written without its line terminator
write_gh_step_summary_no_newline(f, content) ==
    [f EXCEPT ![gh_step_summary] =
        [exists |-> TRUE,
         data |-> (IF @.exists THEN @.data ELSE <<>>) \o content]]

write_gh_step_summary(f, content) ==
    file_write(open_append(f, gh_step_summary), gh_step_summary,
               content \o NL)

\* len(sys.argv) < 3: extra arguments are let through
WrongArgc_too_few(av) == Len(av) < 3

\* len(sys.argv) != 3
WrongArgc(av) == Len(av) # 3

\* ----------------------------------------------------------------- Init
Init ==
    /\ pc = "L8"
    /\ environ \in Environs
    /\ argv \in Argvs
    /\ fs \in [Paths -> Files]
    /\ fs0 = fs
    /\ gh_output = None
    /\ gh_step_summary = None
    /\ tag = <<>>
    /\ cargo_version = <<>>
    /\ stdout = <<>>
    /\ uncaught = None
    /\ exit_status = 0

\* --------------------------------------------------------------- actions
\* an uncaught exception: traceback, exit status 1
Raise(err) ==
    /\ pc' = "exited"
    /\ uncaught' = err
    /\ exit_status' = 1

\* lines 8-10
ReadGhOutput ==
    /\ pc = "L8"
    /\ gh_output' = getenv("GITHUB_OUTPUT")
    /\ IF Falsy(gh_output')
         THEN Raise(ERR_GH_OUTPUT)
         ELSE pc' = "L12" /\ UNCHANGED <<uncaught, exit_status>>
    /\ UNCHANGED <<environ, argv, fs, fs0, gh_step_summary, tag,
                   cargo_version, stdout>>

\* lines 12-14
ReadGhStepSummary ==
    /\ pc = "L12"
    /\ gh_step_summary' = getenv("GITHUB_STEP_SUMMARY")
    /\ IF Falsy(gh_step_summary')
         THEN Raise(ERR_GH_STEP_SUMMARY)
         ELSE pc' = "L53" /\ UNCHANGED <<uncaught, exit_status>>
    /\ UNCHANGED <<environ, argv, fs, fs0, gh_output, tag, cargo_version,
                   stdout>>

\* lines 53-60: the argument count check, then the call of main
CheckArgv ==
    /\ pc = "L53"
    /\ IF WrongArgc(argv)
         THEN /\ stdout' = stdout \o USAGE \o NL
              /\ pc' = "exited"
              /\ exit_status' = 1
              /\ UNCHANGED <<tag, cargo_version>>
         ELSE /\ tag' = argv[2]
              /\ cargo_version' = argv[3]
              /\ pc' = "L28"
              /\ UNCHANGED <<stdout, exit_status>>
    /\ UNCHANGED <<environ, argv, fs, fs0, gh_output, gh_step_summary,
                   uncaught>>

\* line 28
Normalize ==
    /\ pc = "L28"
    /\ tag' = lstrip(tag, {"v"})
    /\ pc' = "L29"
    /\ UNCHANGED <<environ, argv, fs, fs0, gh_output, gh_step_summary,
                   cargo_version, stdout, uncaught, exit_status>>

\* a statement that appends one line to the summary and goes on to `next`
SummaryStep(at, content, next) ==
    /\ pc = at
    /\ fs' = write_gh_step_summary(fs, content)
    /\ pc' = next
    /\ UNCHANGED <<environ, argv, fs0, gh_output, gh_step_summary, tag,
                   cargo_version, stdout, uncaught, exit_status>>

\* a statement that appends one record to the output and goes on to `next`
OutputStep(at, name, value, next) ==
    /\ pc = at
    /\ fs' = write_gh_output(fs, name, value)
    /\ pc' = next
    /\ UNCHANGED <<environ, argv, fs0, gh_output, gh_step_summary, tag,
                   cargo_version, stdout, uncaught, exit_status>>

\* a branch: goes to `yes` or `no`, changes nothing else
BranchStep(at, cond, yes, no) ==
    /\ pc = at
    /\ pc' = IF cond THEN yes ELSE no
    /\ UNCHANGED <<environ, argv, fs, fs0, gh_output, gh_step_summary, tag,
                   cargo_version, stdout, uncaught, exit_status>>

\* line 29
WriteTagHeading == SummaryStep("L29", TAG_HEADING \o tag, "L30")

\* line 30
WriteCargoHeading == SummaryStep("L30", CARGO_HEADING \o cargo_version, "L32")

\* line 32
IfTagAhead == BranchStep("L32", StrGt(tag, cargo_version), "L33", "L39")

\* lines 33-36
WriteTagAhead == SummaryStep("L33", TAG_AHEAD_MSG, "L37")

\* line 37: exit(1)
HardStop ==
    /\ pc = "L37"
    /\ pc' = "exited"
    /\ exit_status' = 1
    /\ UNCHANGED <<environ, argv, fs, fs0, gh_output, gh_step_summary, tag,
                   cargo_version, stdout, uncaught>>

\* line 39
IfEqual == BranchStep("L39", tag = cargo_version, "L40", "L43")

\* line 40
WriteNoRelease == SummaryStep("L40", NO_RELEASE_MSG, "L41")

\* line 41
OutputFalse == OutputStep("L41", RELEASE_NEEDED, STR_FALSE, "L46")

\* line 43
WriteRelease == SummaryStep("L43", RELEASE_MSG, "L44")

\* line 44
OutputTrue == OutputStep("L44", RELEASE_NEEDED, STR_TRUE, "L46")

\* line 46
OutputTag == OutputStep("L46", TAG, tag, "L47")

\* line 47
OutputCargoVersion == OutputStep("L47", CARGO_VERSION, cargo_version, "EOF")

\* main returns and the script ends: exit status 0
ModuleEnd ==
    /\ pc = "EOF"
    /\ pc' = "exited"
    /\ exit_status' = 0
    /\ UNCHANGED <<environ, argv, fs, fs0, gh_output, gh_step_summary, tag,
                   cargo_version, stdout, uncaught>>

Next ==
    \/ ReadGhOutput
    \/ ReadGhStepSummary
    \/ CheckArgv
    \/ Normalize
    \/ WriteTagHeading
    \/ WriteCargoHeading
    \/ IfTagAhead
    \/ WriteTagAhead
    \/ HardStop
    \/ IfEqual
    \/ WriteNoRelease
    \/ OutputFalse
    \/ WriteRelease
    \/ OutputTrue
    \/ OutputTag
    \/ OutputCargoVersion
    \/ ModuleEnd

Spec == Init /\ [][Next]_vars

\* ------------------------------------------------- vocabulary of the claims
\* a variable is set to a non-empty value
EnvSet(n) == n \in DOMAIN environ /\ environ[n] # ""

EnvOk == EnvSet("GITHUB_OUTPUT") /\ EnvSet("GITHUB_STEP_SUMMARY")

\* the run gets as far as main(tag, cargo_version)
ReachesMain == EnvOk /\ Len(argv) = 3

Exited == pc = "exited"

\* main has executed line 28
Normalized == ReachesMain /\ pc \notin {"L8", "L12", "L53", "L28"}

IsPrefix(p, s) == Len(p) <= Len(s) /\ SubSeq(s, 1, Len(p)) = p

IsSuffix(p, s) ==
    Len(p) <= Len(s) /\ SubSeq(s, Len(s) - Len(p) + 1, Len(s)) = p

\* what the run has added to a sink so far
Appended(path) ==
    SubSeq(fs[path].data, Len(fs0[path].data) + 1, Len(fs[path].data))

\* one line of the summary, one record of the output
Line(text) == text \o <<"\n">>

Rec(name, value) == name \o <<"=">> \o value \o <<"\n">>

\* s without its first character when that character is 'v'
StripOneV(s) == IF Len(s) > 0 /\ s[1] = "v" THEN SubSeq(s, 2, Len(s)) ELSE s

\* s without its whole run of leading 'v' characters
StripAllV(s) ==
    LET k == CHOOSE k \in 0..Len(s) :
                 /\ \A i \in 1..k : s[i] = "v"
                 /\ (k = Len(s) \/ s[k + 1] # "v")
    IN  SubSeq(s, k + 1, Len(s))

\* a is lexicographically greater than b: at the first position where they
\* differ a has the greater code point, or b is a proper prefix of a
LexGt(a, b) ==
    \E i \in 1..Len(a) :
        /\ \A j \in 1..(i - 1) : j <= Len(b) /\ a[j] = b[j]
        /\ (i > Len(b) \/ (a[i] # b[i] /\ Ord[a[i]] > Ord[b[i]]))

\* the positions of `data` where a line starts with `pfx`
LinesStarting(data, pfx) ==
    {i \in 1..Len(data) :
        /\ (i = 1 \/ data[i - 1] = "\n")
        /\ i + Len(pfx) - 1 <= Len(data)
        /\ SubSeq(data, i, i + Len(pfx) - 1) = pfx}

\* the number of line terminators in `data`
NumLines(data) == Cardinality({i \in 1..Len(data) : data[i] = "\n"})

\* the arguments, as the claims name them
ArgTag == argv[2]

ArgVersion == argv[3]

\* ---------------------------------------------------------------- claims

\* C1 (as stated): normalization removes at most one leading 'v': the
\* normalized tag is the tag without its first character when that
\* character is 'v', and the tag unchanged otherwise.
C1_AtMostOneV == Normalized => tag = StripOneV(ArgTag)

\* C1 (amended): normalization removes every leading 'v': the normalized
\* tag is the tag without its whole run of leading 'v' characters
\* ("vv1.2.3" becomes "1.2.3"), and this value is the one used in the
\* comparison, in the summary heading and in the `tag=` record.
C1_AllLeadingV ==
    Normalized =>
        LET n == StripAllV(ArgTag) IN
        /\ tag = n
        /\ (pc # "L29" => IsPrefix(Line(TAG_HEADING \o n), Appended(SumPath)))
        /\ (pc \in {"L33", "L37"} => LexGt(n, ArgVersion))
        /\ (pc \in {"L40", "L41"} => n = ArgVersion)
        /\ (pc \in {"L43", "L44"} => n # ArgVersion /\ ~LexGt(n, ArgVersion))
        /\ (pc \in {"EOF", "exited"} /\ ~LexGt(n, ArgVersion) =>
               Cardinality(LinesStarting(Appended(OutPath), Rec(TAG, n))) = 1)

C1_Witness ==
    /\ Exited
    /\ ReachesMain
    /\ ArgTag = <<"v", "v", "1", ".", "2", ".", "3">>
    /\ tag = <<"1", ".", "2", ".", "3">>
    /\ ArgVersion = tag
    /\ exit_status = 0

\* C2: with both variables set and two arguments, when the normalized tag is
\* not greater than cargo_version the process exits 0 and exactly one
\* release_needed record is appended: false when equal, true when less.
C2_ReleaseNeeded ==
    (ReachesMain /\ Exited /\ ~LexGt(StripAllV(ArgTag), ArgVersion)) =>
        LET out == Appended(OutPath)
            val == IF StripAllV(ArgTag) = ArgVersion
                     THEN STR_FALSE ELSE STR_TRUE
        IN  /\ exit_status = 0
            /\ uncaught = None
            /\ Cardinality(LinesStarting(out, RELEASE_NEEDED \o <<"=">>)) = 1
            /\ Cardinality(LinesStarting(out, Rec(RELEASE_NEEDED, val))) = 1

C2_Witness ==
    /\ Exited
    /\ ReachesMain
    /\ ArgTag = <<"v", "1", ".", "2", ".", "3">>
    /\ ArgVersion = <<"1", ".", "2", ".", "3">>
    /\ exit_status = 0
    /\ IsPrefix(Rec(RELEASE_NEEDED, STR_FALSE), Appended(OutPath))

\* C3: when the normalized tag is greater than cargo_version the run is a
\* hard stop: the tag-ahead line is appended to the summary, the exit status
\* is 1, and the output sink is never touched, before or after the stop.
C3_HardStop ==
    (ReachesMain /\ LexGt(StripAllV(ArgTag), ArgVersion)) =>
        /\ fs[OutPath] = fs0[OutPath]
        /\ pc # "EOF"
        /\ (Exited =>
              /\ exit_status = 1
              /\ IsSuffix(Line(TAG_AHEAD_MSG), Appended(SumPath))
              /\ Cardinality(LinesStarting(Appended(SumPath),
                                           Line(TAG_AHEAD_MSG))) = 1)

C3_Witness ==
    /\ Exited
    /\ ReachesMain
    /\ ArgTag = <<"v", "1", ".", "2", ".", "4">>
    /\ ArgVersion = <<"1", ".", "2", ".", "3">>
    /\ exit_status = 1
    /\ fs0[OutPath].exists
    /\ fs[OutPath].data = PRE

\* C4: the outcome is decided by character-by-character lexicographic
\* comparison of the normalized tag with cargo_version (first differing
\* character decides, a proper prefix is less), never numerically:
\* "9.0.0" against "10.0.0" is TagAhead, "10.0.0" against "9.0.0" TagBehind.
C4_Lexicographic ==
    (ReachesMain /\ Exited) =>
        LET out == Appended(OutPath)
            ahead == exit_status = 1
            equal == exit_status = 0
                       /\ IsPrefix(Rec(RELEASE_NEEDED, STR_FALSE), out)
            behind == exit_status = 0
                        /\ IsPrefix(Rec(RELEASE_NEEDED, STR_TRUE), out)
        IN  /\ ahead <=> LexGt(tag, cargo_version)
            /\ equal <=> tag = cargo_version
            /\ behind <=> LexGt(cargo_version, tag)
            /\ (tag = <<"9", ".", "0", ".", "0">>
                  /\ cargo_version = <<"1", "0", ".", "0", ".", "0">> => ahead)
            /\ (tag = <<"1", "0", ".", "0", ".", "0">>
                  /\ cargo_version = <<"9", ".", "0", ".", "0">> => behind)

C4_Witness ==
    /\ Exited
    /\ ReachesMain
    /\ tag = <<"9", ".", "0", ".", "0">>
    /\ cargo_version = <<"1", "0", ".", "0", ".", "0">>
    /\ exit_status = 1
    /\ IsSuffix(Line(TAG_AHEAD_MSG), Appended(SumPath))

\* C5: if either variable is absent or empty the process ends with a
\* nonzero status before the argument count is examined and before main
\* runs, whatever the arguments, and nothing is appended to either sink.
C5_EnvMissing ==
    ~EnvOk =>
        /\ pc \in {"L8", "L12", "exited"}
        /\ (~EnvSet("GITHUB_OUTPUT") => pc # "L12")
        /\ fs = fs0
        /\ stdout = <<>>
        /\ tag = <<>>
        /\ (Exited => exit_status # 0 /\ uncaught # None)

C5_Witness ==
    /\ Exited
    /\ EnvSet("GITHUB_OUTPUT")
    /\ "GITHUB_STEP_SUMMARY" \in DOMAIN environ
    /\ environ["GITHUB_STEP_SUMMARY"] = ""
    /\ Len(argv) = 3
    /\ exit_status = 1
    /\ uncaught = ERR_GH_STEP_SUMMARY
    /\ fs0[OutPath].exists

\* C6 (as stated): whenever the number of arguments is not exactly two the
\* process prints the usage message and exits 1 with nothing appended,
\* also when GITHUB_OUTPUT or GITHUB_STEP_SUMMARY is missing or empty.
C6_UsageAlways ==
    (Len(argv) # 3 /\ Exited) =>
        /\ stdout = Line(USAGE)
        /\ exit_status = 1
        /\ fs = fs0

\* C6 (amended): whenever the number of arguments is not exactly two the
\* process exits 1 without reaching main and with nothing appended; it
\* prints the usage message when both variables are set and non-empty,
\* and otherwise ends with the EnvironmentError and prints no usage message.
C6_UsageWhenEnvOk ==
    Len(argv) # 3 =>
        /\ pc \in {"L8", "L12", "L53", "exited"}
        /\ fs = fs0
        /\ (Exited =>
              /\ exit_status = 1
              /\ (EnvOk => stdout = Line(USAGE) /\ uncaught = None)
              /\ (~EnvOk => stdout = <<>> /\ uncaught # None))

C6_Witness ==
    /\ Exited
    /\ EnvOk
    /\ Len(argv) = 4
    /\ stdout = Line(USAGE)
    /\ exit_status = 1

\* C7: in every run that is not a hard stop the records appended to the
\* output sink are exactly three, in this order: release_needed, then tag
\* with the normalized tag, then cargo_version with the second argument.
C7_ThreeRecords ==
    (ReachesMain /\ Exited /\ ~LexGt(StripAllV(ArgTag), ArgVersion)) =>
        Appended(OutPath) =
            Rec(RELEASE_NEEDED,
                IF StripAllV(ArgTag) = ArgVersion THEN STR_FALSE ELSE STR_TRUE)
            \o Rec(TAG, StripAllV(ArgTag))
            \o Rec(CARGO_VERSION, ArgVersion)

C7_Witness ==
    /\ Exited
    /\ ReachesMain
    /\ ArgTag = <<"v", "1", ".", "2", ".", "2">>
    /\ ArgVersion = <<"1", ".", "2", ".", "3">>
    /\ NumLines(Appended(OutPath)) = 3
    /\ IsSuffix(Rec(CARGO_VERSION, ArgVersion), fs[OutPath].data)

\* C8: in every run that reaches main, the two headings `## Tag:` and
\* `## Cargo Version:` are appended to the summary before the branch
\* decision and before any output record, and are followed by exactly one
\* outcome line, so the run appends exactly three summary lines.
C8_SummaryLines ==
    ReachesMain =>
        LET sum == Appended(SumPath)
            heads == Line(TAG_HEADING \o StripAllV(ArgTag))
                       \o Line(CARGO_HEADING \o ArgVersion)
        IN  /\ (pc = "L32" => sum = heads)
            /\ (fs[OutPath] # fs0[OutPath] => IsPrefix(heads, sum))
            /\ (Exited =>
                  /\ NumLines(sum) = 3
                  /\ sum = heads \o Line(
                        IF exit_status = 1 THEN TAG_AHEAD_MSG
                        ELSE IF StripAllV(ArgTag) = ArgVersion
                          THEN NO_RELEASE_MSG
                          ELSE RELEASE_MSG))

C8_Witness ==
    /\ Exited
    /\ ReachesMain
    /\ exit_status = 1
    /\ fs0[SumPath].data = PRE
    /\ NumLines(Appended(SumPath)) = 3

\* C9 (as stated): the process only appends to the two sinks and never
\* creates or truncates them: the earlier content stays a prefix, and a sink
\* that did not exist before the run is not brought into existence.
C9_NeverCreates ==
    \A p \in Paths :
        /\ IsPrefix(fs0[p].data, fs[p].data)
        /\ (~fs0[p].exists => ~fs[p].exists)

\* C9 (amended): the process only appends to the two sinks and never
\* truncates or removes them: the earlier content stays a prefix; a sink
\* that did not exist before the run is created by the first write to it.
C9_AppendOnly ==
    \A p \in Paths :
        /\ IsPrefix(fs0[p].data, fs[p].data)
        /\ (fs0[p].exists => fs[p].exists)
        /\ (fs[p].data # fs0[p].data => fs[p].exists)
        /\ (fs[p].exists /\ ~fs0[p].exists => fs[p].data # <<>>)
        /\ (ReachesMain /\ Exited /\ p = SumPath => fs[p].exists)
        /\ (ReachesMain /\ Exited /\ exit_status = 0 => fs[p].exists)

C9_Witness ==
    /\ Exited
    /\ ~fs0[SumPath].exists
    /\ fs[SumPath].exists
    /\ fs0[OutPath].data = PRE
    /\ Len(fs[OutPath].data) > Len(PRE)

\* C10: normalization is idempotent and leaves no leading 'v': the
\* normalized tag does not begin with 'v', normalizing it again returns it
\* unchanged, a tag made only of 'v' normalizes to the empty string, and the
\* value in the `## Tag:` heading and the `tag=` record never starts with 'v'.
C10_Idempotent ==
    Normalized =>
        /\ (tag = <<>> \/ tag[1] # "v")
        /\ lstrip(tag, {"v"}) = tag
        /\ ((\A i \in 1..Len(ArgTag) : ArgTag[i] = "v") => tag = <<>>)
        /\ (pc # "L29" =>
              LET sum == Appended(SumPath) IN
              /\ IsPrefix(TAG_HEADING, sum)
              /\ sum[Len(TAG_HEADING) + 1] # "v")
        /\ (Exited /\ exit_status = 0 =>
              LET out == Appended(OutPath)
                  at == LinesStarting(out, TAG \o <<"=">>)
              IN  /\ Cardinality(at) = 1
                  /\ \A i \in at : out[i + Len(TAG) + 1] # "v")

C10_Witness ==
    /\ Exited
    /\ ReachesMain
    /\ ArgTag = <<"v", "v">>
    /\ tag = <<>>
    /\ exit_status = 0
    /\ Cardinality(LinesStarting(Appended(OutPath), Rec(TAG, <<>>))) = 1

====
